---- MODULE Spec2Model ----
(***************************************************************************)
(* Model of the fishing-derby RAM patcher (hackatari/games/fishingderby.py)*)
(* and of the RAM debugging GUI with its causative-cell scan (rem_gui.py). *)
(*                                                                         *)
(* The emulator memory is a function from cell index to byte.  Every write *)
(* goes through setRAM, which also records the (index, value) pair that    *)
(* was passed, so that statements about "what was written" can be checked. *)
(*                                                                         *)
(* Four specifications share the variables:                                *)
(*   SpecPatch  alter_shark / alter_fish applied to a memory, every mode;  *)
(*   SpecScan   find_causative_ram alone, statement by statement;          *)
(*   SpecMouse  the mouse handlers alone, right click included, on         *)
(*              several window layouts;                                    *)
(*   Spec       the renderer: mouse and key handlers, frames and scans.    *)
(*                                                                         *)
(* The emulator and the game environment are not part of the sources: the  *)
(* frame size 160 x 210 and UPSCALE_FACTOR are the values of the Atari     *)
(* frame and of ocatari, env_step and getScreenRGB stand for the emulator. *)
(* Left out of the renderer: pause, reset, save state, fullscreen toggle   *)
(* and the game keys; none of them writes a RAM cell through the renderer. *)
(* The right click, which only edits the no_render list, is part of        *)
(* SpecMouse and not of Spec.  The mouse position is read afresh by every  *)
(* handler, so it is an input of the handlers and not a variable.          *)
(***************************************************************************)
EXTENDS Integers, Sequences, FiniteSets, TLC

\* ------------------------------------------------------------------ bounds
MaxSharkMode == 4
MaxFishMode == 3
MaxApplications == 2
MaxInputLen == 3
MaxOps == 1

\* ------------------------------------------------------ program constants
amount_ram_cells == 128
UPSCALE_FACTOR == 4
RAM_RENDER_WIDTH == 1000
RAM_CELL_WIDTH == 115
RAM_CELL_HEIGHT == 45
RAM_ROW_PADDING == 10
RAM_COLUMN_PADDING == 15

Cells == 0 .. (amount_ram_cells - 1)
Byte == 0 .. 255
NoCell == -1

VARIABLES
    mem,            \* the emulator RAM: [Cells -> Byte]
    wlog,           \* (index, value) pairs passed to setRAM by the last action
    SHARK_MODE,     \* fishingderby.py module global
    FISH_MODE,      \* fishingderby.py module global
    step_modifs,    \* list returned by modif_funcs, applied on every step
    mem0,           \* history: memory at construction
    trace,          \* history: patcher functions applied so far
    envKind,        \* which Environment the renderer drives
    window,         \* <<width, height>> of the pygame window
    RAM_N_COLS,     \* Renderer.RAM_N_COLS
    scaled_cell_width,
    scaled_cell_height,
    active_cell_idx,            \* NoCell stands for None
    current_active_cell_input,  \* the typed digits, a sequence of 0..9
    candidate_cell_ids,         \* list of cell indices
    no_render,                  \* list of the cells toggled by a right click
    running,        \* FALSE once an exception has left run()
    err,            \* the exception that ended the run, or "none"
    pc,             \* position inside find_causative_ram, or "idle"
    ram,            \* find_causative_ram: the copy of the RAM
    scan_i,         \* find_causative_ram: loop index i
    scan_xy,        \* find_causative_ram: arguments <<x, y>>
    original_pixel, \* find_causative_ram: local
    new_pixel,      \* find_causative_ram: local
    nops,           \* number of edits and frames so far
    last,           \* history: the handler that ran last ("ui": one that only
                    \* changes the selection or the typed text)
    req             \* history: the write the user asked for in that handler

patchVars == <<SHARK_MODE, FISH_MODE, step_modifs, mem0, trace>>
layoutVars == <<envKind, window, RAM_N_COLS, scaled_cell_width, scaled_cell_height>>
uiVars == <<active_cell_idx, current_active_cell_input, candidate_cell_ids>>
scanVars == <<pc, ram, scan_i, scan_xy, original_pixel, new_pixel>>
guiVars ==
    <<layoutVars, uiVars, no_render, running, err, scanVars, nops, last, req>>

vars == <<mem, wlog, patchVars, guiVars>>

\* ----------------------------------------------------------- memory access
\* A memory together with the log of the writes requested on it.
St(m) == [mem |-> m, log |-> {}]

\* Environment.set_memory / ale.setRAM: rejects an index outside [0, N) and a
\* value outside [0, 255], leaving the memory as it is.
setRAM(st, idx, value) ==
    [mem |-> IF idx \in Cells /\ value \in Byte
             THEN [st.mem EXCEPT ![idx] = value]
             ELSE st.mem,
     log |-> st.log \cup {<<idx, value>>}]

\* self.get_ram() / self.set_ram(i, v) of the game environment
get_ram(st) == st.mem
set_ram(st, idx, value) == setRAM(st, idx, value)

\* ---------------------------------------- faulty variants of the patchers
\* teleport sends the shark from 100 to 30, the other sentinel
alter_shark_teleport_to_sentinel(st, mode) ==
    IF mode = 3
    THEN LET current_x_position == get_ram(st)[75]
             a == IF current_x_position = 100 THEN set_ram(st, 75, 30) ELSE st
         IN  IF current_x_position = 30 THEN set_ram(a, 75, 105) ELSE a
    ELSE IF mode = 1 THEN set_ram(st, 75, 105)
    ELSE IF mode = 2 THEN set_ram(st, 75, 25)
    ELSE IF mode = 4
    THEN LET current_x_position == get_ram(st)[75]
             a == IF current_x_position < 120
                  THEN set_ram(st, 75, current_x_position + 5) ELSE st
         IN  IF current_x_position > 120 THEN set_ram(a, 75, 1) ELSE a
    ELSE st

\* speed mode reads the cell again for its second test, after the increment
alter_shark_ramp_rereads_cell(st, mode) ==
    IF mode = 4
    THEN LET current_x_position == get_ram(st)[75]
             a == IF current_x_position < 120
                  THEN set_ram(st, 75, current_x_position + 5) ELSE st
         IN  IF get_ram(a)[75] > 120 THEN set_ram(a, 75, 1) ELSE a
    ELSE IF mode = 1 THEN set_ram(st, 75, 105)
    ELSE IF mode = 2 THEN set_ram(st, 75, 25)
    ELSE IF mode = 3
    THEN LET current_x_position == get_ram(st)[75]
             a == IF current_x_position = 100 THEN set_ram(st, 75, 25) ELSE st
         IN  IF current_x_position = 30 THEN set_ram(a, 75, 105) ELSE a
    ELSE st

\* teleport triggers on ">= 100" instead of "== 100"
alter_shark_teleport_past_boundary(st, mode) ==
    IF mode = 3
    THEN LET current_x_position == get_ram(st)[75]
             a == IF current_x_position >= 100 THEN set_ram(st, 75, 25) ELSE st
         IN  IF current_x_position = 30 THEN set_ram(a, 75, 105) ELSE a
    ELSE IF mode = 1 THEN set_ram(st, 75, 105)
    ELSE IF mode = 2 THEN set_ram(st, 75, 25)
    ELSE IF mode = 4
    THEN LET current_x_position == get_ram(st)[75]
             a == IF current_x_position < 120
                  THEN set_ram(st, 75, current_x_position + 5) ELSE st
         IN  IF current_x_position > 120 THEN set_ram(a, 75, 1) ELSE a
    ELSE st

\* "no movement hard" pins cell 74, a fish cell, instead of cell 75
alter_shark_wrong_cell(st, mode) ==
    IF mode = 2 THEN set_ram(st, 74, 25)
    ELSE IF mode = 1 THEN set_ram(st, 75, 105)
    ELSE IF mode = 3
    THEN LET current_x_position == get_ram(st)[75]
             a == IF current_x_position = 100 THEN set_ram(st, 75, 25) ELSE st
         IN  IF current_x_position = 30 THEN set_ram(a, 75, 105) ELSE a
    ELSE IF mode = 4
    THEN LET current_x_position == get_ram(st)[75]
             a == IF current_x_position < 120
                  THEN set_ram(st, 75, current_x_position + 5) ELSE st
         IN  IF current_x_position > 120 THEN set_ram(a, 75, 1) ELSE a
    ELSE st

\* "always in the middle" uses "<= 70" as its lower test
alter_fish_cell_band_off_by_one(st, mode, i) ==
    IF mode = 1
    THEN IF get_ram(st)[69 + i] > 86 THEN set_ram(st, 69 + i, 44) ELSE st
    ELSE IF mode = 2
    THEN IF get_ram(st)[69 + i] < 70 THEN set_ram(st, 69 + i, 116) ELSE st
    ELSE IF mode = 3
    THEN LET a == IF get_ram(st)[69 + i] <= 70
                  THEN set_ram(st, 69 + i, 86) ELSE st
         IN  IF get_ram(a)[69 + i] > 86 THEN set_ram(a, 69 + i, 70) ELSE a
    ELSE st

\* --------------------------------------------------------------- patchers
alter_shark(st, mode) ==
    IF mode > 0
    THEN LET s1 == IF mode = 1 THEN set_ram(st, 75, 105) ELSE st
             s2 == IF mode = 2 THEN set_ram(s1, 75, 25) ELSE s1
             s3 == IF mode = 3
                   THEN LET current_x_position == get_ram(s2)[75]
                            a == IF current_x_position = 100
                                 THEN set_ram(s2, 75, 25) ELSE s2
                        IN  IF current_x_position = 30
                            THEN set_ram(a, 75, 105) ELSE a
                   ELSE s2
             s4 == IF mode = 4
                   THEN LET current_x_position == get_ram(s3)[75]
                            a == IF current_x_position < 120
                                 THEN set_ram(s3, 75, current_x_position + 5)
                                 ELSE s3
                        IN  IF current_x_position > 120
                            THEN set_ram(a, 75, 1) ELSE a
                   ELSE s3
         IN  s4
    ELSE st

\* body of the loops "for i in range(6)" of alter_fish, one fish cell
alter_fish_cell(st, mode, i) ==
    LET s1 == IF mode = 1 /\ get_ram(st)[69 + i] > 86
              THEN set_ram(st, 69 + i, 44) ELSE st
        s2 == IF mode = 2 /\ get_ram(s1)[69 + i] < 70
              THEN set_ram(s1, 69 + i, 116) ELSE s1
        s3 == IF mode = 3
              THEN LET a == IF get_ram(s2)[69 + i] < 70
                            THEN set_ram(s2, 69 + i, 86) ELSE s2
                   IN  IF get_ram(a)[69 + i] > 86
                       THEN set_ram(a, 69 + i, 70) ELSE a
              ELSE s2
    IN  s3

RECURSIVE alter_fish_loop(_, _, _, _)
alter_fish_loop(st, mode, i, n) ==
    IF i >= n THEN st
    ELSE alter_fish_loop(alter_fish_cell(st, mode, i), mode, i + 1, n)

\* the loops run over range(7) and reach cell 75, the shark's
alter_fish_seven_cells(st, mode) ==
    IF mode > 0 THEN alter_fish_loop(st, mode, 0, 7) ELSE st

alter_fish(st, mode) ==
    IF mode > 0 THEN alter_fish_loop(st, mode, 0, 6) ELSE st

\* modif_funcs: a modification is <<first letter, last digit>>
RECURSIVE modif_funcs(_, _)
modif_funcs(modifs, acc) ==
    IF modifs = <<>> THEN acc
    ELSE LET mod == Head(modifs)
             mod_n == mod[2]
             nxt == IF mod[1] = "f"
                    THEN [acc EXCEPT !.FISH_MODE = mod_n,
                                     !.step_modifs = Append(@, "alter_fish")]
                    ELSE IF mod[1] = "s"
                    THEN [acc EXCEPT !.SHARK_MODE = mod_n,
                                     !.step_modifs = Append(@, "alter_shark")]
                    ELSE acc
         IN  modif_funcs(Tail(modifs), nxt)

ModuleGlobals == [FISH_MODE |-> 0, SHARK_MODE |-> 0, step_modifs |-> <<>>]

\* ------------------------------------------------- inputs of the patcher
\* six fish cells 69..74: values around the thresholds 70 and 86
FishPatterns ==
    { <<0, 69, 70, 86, 87, 255>>,
      <<87, 44, 116, 70, 69, 86>>,
      <<78, 78, 78, 78, 78, 78>>,
      <<255, 0, 100, 44, 116, 71>> }

BaseMem == [c \in Cells |-> (c * 7 + 3) % 256]

PatchMem(shark, fish) ==
    [c \in Cells |-> IF c = 75 THEN shark
                     ELSE IF c \in 69 .. 74 THEN fish[c - 68]
                     ELSE BaseMem[c]]

\* the renderer as constructed, before any event
NoReq == [path |-> "none", idx |-> NoCell, value |-> 0]

GuiIdle ==
    /\ envKind = "emulator"
    /\ window = <<0, 0>>
    /\ RAM_N_COLS = 1
    /\ scaled_cell_width = RAM_CELL_WIDTH
    /\ scaled_cell_height = RAM_CELL_HEIGHT
    /\ active_cell_idx = NoCell
    /\ current_active_cell_input = <<>>
    /\ candidate_cell_ids = <<>>
    /\ no_render = <<>>
    /\ running = TRUE
    /\ err = "none"
    /\ pc = "idle"
    /\ ram = <<>>
    /\ scan_i = 0
    /\ scan_xy = <<0, 0>>
    /\ original_pixel = <<>>
    /\ new_pixel = <<>>
    /\ nops = 0
    /\ last = "init"
    /\ req = NoReq

InitPatch ==
    /\ \E shark \in Byte, fish \in FishPatterns :
          mem = PatchMem(shark, fish)
    /\ \E s \in 0 .. MaxSharkMode, f \in 0 .. MaxFishMode :
          LET g == modif_funcs(<< <<"s", s>>, <<"f", f>> >>, ModuleGlobals)
          IN  /\ SHARK_MODE = g.SHARK_MODE
              /\ FISH_MODE = g.FISH_MODE
              /\ step_modifs = g.step_modifs
    /\ mem0 = mem
    /\ wlog = {}
    /\ trace = <<>>
    /\ GuiIdle

AlterShark ==
    /\ Len(trace) < MaxApplications
    /\ LET r == alter_shark(St(mem), SHARK_MODE)
       IN  /\ mem' = r.mem
           /\ wlog' = r.log
    /\ trace' = Append(trace, "alter_shark")
    /\ UNCHANGED <<SHARK_MODE, FISH_MODE, step_modifs, mem0, guiVars>>

AlterFish ==
    /\ Len(trace) < MaxApplications
    /\ LET r == alter_fish(St(mem), FISH_MODE)
       IN  /\ mem' = r.mem
           /\ wlog' = r.log
    /\ trace' = Append(trace, "alter_fish")
    /\ UNCHANGED <<SHARK_MODE, FISH_MODE, step_modifs, mem0, guiVars>>

NextPatch == AlterShark \/ AlterFish

SpecPatch == InitPatch /\ [][NextPatch]_vars

\* ======================================================== the Environment
\* The game emulator itself: one no-op frame advances the frame counter in
\* cell 0 and moves the shark in cell 75.
emulator_tick(m) ==
    [m EXCEPT ![0] = (@ + 1) % 256, ![75] = (@ + 1) % 256]

RECURSIVE apply_step_modifs(_, _, _, _)
apply_step_modifs(st, funcs, shark_mode, fish_mode) ==
    IF funcs = <<>> THEN st
    ELSE LET nxt == IF Head(funcs) = "alter_shark"
                    THEN alter_shark(st, shark_mode)
                    ELSE alter_fish(st, fish_mode)
         IN  apply_step_modifs(nxt, Tail(funcs), shark_mode, fish_mode)

\* env.step(action): the synthetic Environment leaves the memory as it is,
\* the game advances one frame and then runs the step modifications.
env_step(st, kind, funcs, shark_mode, fish_mode) ==
    IF kind = "synthetic" THEN st
    ELSE apply_step_modifs([mem |-> emulator_tick(st.mem), log |-> st.log],
                           funcs, shark_mode, fish_mode)

\* the memory cell behind pixel (x, y) of the 160 pixel wide frame
PixelCell(x, y) == (y * 160 + x) % amount_ram_cells

\* ale.getScreenRGB()[y, x]
getScreenRGB(m, kind, x, y) ==
    IF kind = "synthetic" THEN << m[PixelCell(x, y)] % 2 >>
    ELSE << m[PixelCell(x, y)], m[75] \div 64, m[0] % 2 >>

\* ============================================================ the Renderer
Min(a, b) == IF a < b THEN a ELSE b
Max(a, b) == IF a > b THEN a ELSE b

env_render_shape == << 160 * UPSCALE_FACTOR, 210 * UPSCALE_FACTOR >>
ram_grid_anchor_left == env_render_shape[1] + 28
ram_grid_anchor_top == 28

\* _init_pygame: window size, number of columns and scaled cell size
init_pygame(screen, fullscreen) ==
    LET window_width == Min(env_render_shape[1] + RAM_RENDER_WIDTH, screen[1])
        window_height == Min(env_render_shape[2], screen[2])
        win == IF fullscreen THEN screen ELSE <<window_width, window_height>>
        ram_rects_width == win[1] - env_render_shape[1]
        ram_rects_height == win[2]
        n_cols == Max(1, ram_rects_width \div (RAM_CELL_WIDTH + RAM_ROW_PADDING))
        rows_needed == (amount_ram_cells + n_cols - 1) \div n_cols
        max_rows == ram_rects_height \div (RAM_CELL_HEIGHT + RAM_COLUMN_PADDING)
        scaled == rows_needed > max_rows
    IN  [window |-> win,
         RAM_N_COLS |-> n_cols,
         scaled_cell_width |->
             IF scaled THEN (RAM_CELL_WIDTH * max_rows) \div rows_needed
             ELSE RAM_CELL_WIDTH,
         scaled_cell_height |->
             IF scaled THEN (RAM_CELL_HEIGHT * max_rows) \div rows_needed
             ELSE RAM_CELL_HEIGHT]

\* _get_cell_under_mouse, for the mouse at p = <<x, y>>
get_cell_under_mouse(p, n_cols, cell_w, cell_h) ==
    IF p[1] > ram_grid_anchor_left /\ p[2] > ram_grid_anchor_top
    THEN LET col == (p[1] - ram_grid_anchor_left) \div (cell_w + 10)
             row == (p[2] - ram_grid_anchor_top) \div (cell_h + 10)
         IN  IF col < n_cols /\ row < amount_ram_cells
             THEN row * n_cols + col
             ELSE NoCell
    ELSE NoCell

cell_under_mouse(p) ==
    get_cell_under_mouse(p, RAM_N_COLS, scaled_cell_width, scaled_cell_height)

\* _get_ram_cell_rect: top left corner of the rectangle of cell idx
get_ram_cell_rect(idx) ==
    << ram_grid_anchor_left + (idx % RAM_N_COLS) * (scaled_cell_width + 10),
       ram_grid_anchor_top + (idx \div RAM_N_COLS) * (scaled_cell_height + 10) >>

\* int(self.current_active_cell_input)
RECURSIVE int_of(_, _)
int_of(digits, acc) ==
    IF digits = <<>> THEN acc
    ELSE int_of(Tail(digits), 10 * acc + Head(digits))

\* value + d for a numpy uint8 scalar and a Python int: an int64 sum under the
\* legacy promotion rules, a wrapped uint8 under NEP 50
uint8_plus(value, d) == { value + d, (value + d) % 256 }

\* the writes "for k, value in enumerate(values): ale.setRAM(k, value)" for
\* the indices k in ks, all at once
set_ram_each(st, values, ks) ==
    [mem |-> [c \in DOMAIN st.mem |->
                 IF c \in ks /\ values[c] \in Byte THEN values[c] ELSE st.mem[c]],
     log |-> st.log \cup { <<k, values[k]>> : k \in ks }]

\* the restore starts at the second cell
_set_ram_from_second_cell(st, values) ==
    set_ram_each(st, values, DOMAIN values \ {0})

\* the restore stops one cell short of the end
_set_ram_without_last_cell(st, values) ==
    set_ram_each(st, values, DOMAIN values \ {amount_ram_cells - 1})

\* _set_ram(values): writes every cell k with values[k]
_set_ram(st, values) == set_ram_each(st, values, DOMAIN values)

\* _set_ram_value_at(idx, value)
_set_ram_value_at(st, idx, value) == setRAM(st, idx, value)

\* the value _increment_ram_value_at / _decrement_ram_value_at write, for
\* the sum r that value + 1 / value - 1 evaluated to
_increment_value(r) == Min(r, 255)

\* the decrement is written as it comes, without max(..., 0)
_decrement_value_unclamped(r) == r

_decrement_value(r) == Max(r, 0)

\* the test of the typed value before it is written
typed_value_ok(new_cell_value) == new_cell_value < 256

\* the test is inverted: the cells that leave the pixel alone are recorded
pixel_unchanged(new, original) == new = original

\* np.any(new_pixel != original_pixel)
pixel_changed(new, original) == new # original

\* ---------------------------------------------------------------- inputs
DigitKeys == {2, 5}
HoverCells == {0, amount_ram_cells}
FramePoints == { <<75 * UPSCALE_FACTOR, 100 * UPSCALE_FACTOR>> }

\* the mouse positions tried: over the frame, inside the rectangle of a
\* cell, and on the corner of the grid
MousePoints ==
    { p \in FramePoints
          \cup { <<get_ram_cell_rect(c)[1] + 1, get_ram_cell_rect(c)[2] + 1>> :
                    c \in HoverCells }
          \cup { <<ram_grid_anchor_left, ram_grid_anchor_top>> } :
      p[1] < window[1] /\ p[2] < window[2] }

GuiMem == [c \in Cells |-> (c * 7) % 256]

InitRenderer(screen, fullscreen) ==
    LET l == init_pygame(screen, fullscreen)
    IN  /\ window = l.window
        /\ RAM_N_COLS = l.RAM_N_COLS
        /\ scaled_cell_width = l.scaled_cell_width
        /\ scaled_cell_height = l.scaled_cell_height
        /\ active_cell_idx = NoCell
        /\ current_active_cell_input = <<>>
        /\ candidate_cell_ids = <<>>
        /\ no_render = <<>>
        /\ running = TRUE
        /\ err = "none"
        /\ pc = "idle"
        /\ ram = <<>>
        /\ scan_i = 0
        /\ scan_xy = <<0, 0>>
        /\ original_pixel = <<>>
        /\ new_pixel = <<>>
        /\ nops = 0
        /\ last = "init"
        /\ req = NoReq
        /\ mem0 = mem
        /\ wlog = {}
        /\ trace = <<>>

InitModifs(modifs) ==
    LET g == modif_funcs(modifs, ModuleGlobals)
    IN  /\ SHARK_MODE = g.SHARK_MODE
        /\ FISH_MODE = g.FISH_MODE
        /\ step_modifs = g.step_modifs

Idle == running /\ pc = "idle"

\* ------------------------------------------------------------ the handlers
\* left mouse button outside the frame: select the cell under the mouse
SelectCell ==
    /\ Idle
    /\ \E p \in MousePoints :
          /\ ~(p[1] \div UPSCALE_FACTOR < 160)
          /\ active_cell_idx' = cell_under_mouse(p)
    /\ current_active_cell_input' = <<>>
    /\ last' = "ui"
    /\ req' = NoReq
    /\ wlog' = {}
    /\ UNCHANGED <<mem, patchVars, layoutVars, no_render, candidate_cell_ids, running, err,
                   scanVars, nops>>

\* list.remove(x): the list without the first occurrence of x
list_remove(l, x) ==
    LET k == CHOOSE j \in 1 .. Len(l) :
                 l[j] = x /\ \A h \in 1 .. (j - 1) : l[h] # x
    IN  SubSeq(l, 1, k - 1) \o SubSeq(l, k + 1, Len(l))

\* right mouse button: toggle the cell under the mouse in no_render; the
\* result of _get_cell_under_mouse is used as it comes, None included
RightClick ==
    /\ Idle
    /\ \E p \in MousePoints :
          LET to_hide == cell_under_mouse(p)
          IN  no_render' =
                 IF \E j \in 1 .. Len(no_render) : no_render[j] = to_hide
                 THEN list_remove(no_render, to_hide)
                 ELSE Append(no_render, to_hide)
    /\ last' = "right_click"
    /\ req' = NoReq
    /\ wlog' = {}
    /\ UNCHANGED <<mem, patchVars, layoutVars, uiVars, running, err, scanVars,
                   nops>>

\* mouse wheel up (button 4) or down (button 5) over a cell
Wheel(button) ==
    /\ Idle
    /\ nops < MaxOps
    /\ \E p \in MousePoints :
          LET cell_idx == cell_under_mouse(p)
          IN  /\ cell_idx # NoCell
              /\ IF cell_idx \notin Cells
                 THEN \* ram[idx] raises IndexError in _get_ram_value_at
                      /\ running' = FALSE
                      /\ err' = "IndexError"
                      /\ req' = [path |-> "wheel", idx |-> cell_idx, value |-> 0]
                      /\ wlog' = {}
                      /\ mem' = mem
                 ELSE \E r \in uint8_plus(mem[cell_idx],
                                          IF button = 4 THEN 1 ELSE -1) :
                        LET value == IF button = 4 THEN _increment_value(r)
                                     ELSE _decrement_value(r)
                            res == _set_ram_value_at(St(mem), cell_idx, value)
                        IN  /\ mem' = res.mem
                            /\ wlog' = res.log
                            /\ req' = [path |-> "wheel", idx |-> cell_idx,
                                       value |-> value]
                            /\ UNCHANGED <<running, err>>
    /\ nops' = nops + 1
    /\ last' = IF button = 4 THEN "wheel_up" ELSE "wheel_down"
    /\ UNCHANGED <<patchVars, layoutVars, no_render, uiVars, scanVars>>

WheelUp == Wheel(4)
WheelDown == Wheel(5)

\* a digit key, from the number row or the keypad
TypeDigit ==
    /\ Idle
    /\ active_cell_idx # NoCell
    /\ Len(current_active_cell_input) < MaxInputLen
    /\ \E d \in DigitKeys :
          current_active_cell_input' = Append(current_active_cell_input, d)
    /\ last' = "ui"
    /\ req' = NoReq
    /\ wlog' = {}
    /\ UNCHANGED <<mem, patchVars, layoutVars, no_render, active_cell_idx,
                   candidate_cell_ids, running, err, scanVars, nops>>

Backspace ==
    /\ Idle
    /\ active_cell_idx # NoCell
    /\ current_active_cell_input' =
          SubSeq(current_active_cell_input, 1, Len(current_active_cell_input) - 1)
    /\ last' = "ui"
    /\ req' = NoReq
    /\ wlog' = {}
    /\ UNCHANGED <<mem, patchVars, layoutVars, no_render, active_cell_idx,
                   candidate_cell_ids, running, err, scanVars, nops>>

Escape ==
    /\ Idle
    /\ active_cell_idx # NoCell
    /\ active_cell_idx' = NoCell
    /\ current_active_cell_input' = <<>>
    /\ last' = "ui"
    /\ req' = NoReq
    /\ wlog' = {}
    /\ UNCHANGED <<mem, patchVars, layoutVars, no_render, candidate_cell_ids, running, err,
                   scanVars, nops>>

\* Return or keypad Enter: write the typed value to the active cell
Enter ==
    /\ Idle
    /\ active_cell_idx # NoCell
    /\ IF Len(current_active_cell_input) > 0
       THEN LET new_cell_value == int_of(current_active_cell_input, 0)
            IN  /\ req' = [path |-> "enter", idx |-> active_cell_idx,
                           value |-> new_cell_value]
                /\ IF typed_value_ok(new_cell_value)
                   THEN LET res == _set_ram_value_at(St(mem), active_cell_idx,
                                                     new_cell_value)
                        IN  /\ nops < MaxOps
                            /\ nops' = nops + 1
                            /\ mem' = res.mem
                            /\ wlog' = res.log
                            /\ IF active_cell_idx \in Cells
                                  /\ new_cell_value \in Byte
                               THEN UNCHANGED <<running, err>>
                               ELSE \* setRAM raises
                                    /\ running' = FALSE
                                    /\ err' = IF active_cell_idx \in Cells
                                              THEN "InvalidMemoryValue"
                                              ELSE "InvalidMemoryIndex"
                   ELSE /\ wlog' = {}
                        /\ UNCHANGED <<mem, running, err, nops>>
       ELSE /\ req' = NoReq
            /\ wlog' = {}
            /\ UNCHANGED <<mem, running, err, nops>>
    /\ IF running'
       THEN active_cell_idx' = NoCell /\ current_active_cell_input' = <<>>
       ELSE UNCHANGED <<active_cell_idx, current_active_cell_input>>
    /\ last' = "enter"
    /\ UNCHANGED <<patchVars, layoutVars, no_render, candidate_cell_ids, scanVars>>

\* one iteration of run(): the game advances a frame
Frame ==
    /\ Idle
    /\ nops < MaxOps
    /\ LET res == env_step(St(mem), envKind, step_modifs, SHARK_MODE, FISH_MODE)
       IN  /\ mem' = res.mem
           /\ wlog' = res.log
    /\ nops' = nops + 1
    /\ last' = "frame"
    /\ req' = NoReq
    /\ UNCHANGED <<patchVars, layoutVars, no_render, uiVars, running, err, scanVars>>

\* --------------------------------------------------- find_causative_ram
\* left mouse button over the frame: copy the RAM, step once, read the pixel
ScanStart ==
    /\ Idle
    /\ \E p \in MousePoints :
          LET x == p[1] \div UPSCALE_FACTOR
              y == p[2] \div UPSCALE_FACTOR
              res == env_step(St(mem), envKind, step_modifs, SHARK_MODE, FISH_MODE)
          IN  /\ x < 160
              /\ scan_xy' = <<x, y>>
              /\ ram' = mem
              /\ mem' = res.mem
              /\ wlog' = res.log
              /\ original_pixel' = getScreenRGB(res.mem, envKind, x, y)
    /\ pc' = "restore_ref"
    /\ last' = "find_causative_ram"
    /\ req' = NoReq
    /\ UNCHANGED <<patchVars, layoutVars, no_render, uiVars, running, err, scan_i, new_pixel,
                   nops>>

\* restore the original RAM and enter the loop over the cells
ScanRestoreRef ==
    /\ running /\ pc = "restore_ref"
    /\ LET res == _set_ram(St(mem), ram)
       IN  mem' = res.mem /\ wlog' = res.log
    /\ candidate_cell_ids' = <<>>
    /\ scan_i' = 0
    /\ pc' = IF 0 < amount_ram_cells THEN "probe_write" ELSE "finish"
    /\ UNCHANGED <<patchVars, layoutVars, no_render, active_cell_idx,
                   current_active_cell_input, running, err, ram, scan_xy,
                   original_pixel, new_pixel, nops, last, req>>

\* for altered_value in [0]: ale.setRAM(i, altered_value)
ProbeWrite ==
    /\ running /\ pc = "probe_write"
    /\ active_cell_idx' = scan_i
    /\ current_active_cell_input' = <<0>>
    /\ LET res == setRAM(St(mem), scan_i, 0)
       IN  mem' = res.mem /\ wlog' = res.log
    /\ pc' = "probe_step"
    /\ UNCHANGED <<patchVars, layoutVars, no_render, candidate_cell_ids, running, err, ram,
                   scan_i, scan_xy, original_pixel, new_pixel, nops, last, req>>

\* self.env.step(0); new_pixel = ale.getScreenRGB()[y, x]
ProbeStep ==
    /\ running /\ pc = "probe_step"
    /\ LET res == env_step(St(mem), envKind, step_modifs, SHARK_MODE, FISH_MODE)
       IN  /\ mem' = res.mem
           /\ wlog' = res.log
           /\ new_pixel' = getScreenRGB(res.mem, envKind, scan_xy[1], scan_xy[2])
    /\ pc' = "probe_restore"
    /\ UNCHANGED <<patchVars, layoutVars, no_render, uiVars, running, err, ram, scan_i,
                   scan_xy, original_pixel, nops, last, req>>

\* restore the original RAM, record the cell if the pixel changed, next cell
ProbeRestore ==
    /\ running /\ pc = "probe_restore"
    /\ LET res == _set_ram(St(mem), ram)
       IN  mem' = res.mem /\ wlog' = res.log
    /\ candidate_cell_ids' =
          IF pixel_changed(new_pixel, original_pixel)
          THEN Append(candidate_cell_ids, scan_i)
          ELSE candidate_cell_ids
    /\ scan_i' = scan_i + 1
    /\ pc' = IF scan_i + 1 < amount_ram_cells THEN "probe_write" ELSE "finish"
    /\ UNCHANGED <<patchVars, layoutVars, no_render, active_cell_idx,
                   current_active_cell_input, running, err, ram, scan_xy,
                   original_pixel, new_pixel, nops, last, req>>

\* self._unselect_active_cell() after the loop, and the return: the locals
\* of the call are gone
ScanFinish ==
    /\ running /\ pc = "finish"
    /\ active_cell_idx' = NoCell
    /\ current_active_cell_input' = <<>>
    /\ pc' = "idle"
    /\ wlog' = {}
    /\ ram' = <<>>
    /\ scan_i' = 0
    /\ scan_xy' = <<0, 0>>
    /\ original_pixel' = <<>>
    /\ new_pixel' = <<>>
    /\ UNCHANGED <<mem, patchVars, layoutVars, no_render, candidate_cell_ids, running, err,
                   nops, last, req>>

\* --------------------------------------------------------- specifications
Screen == <<1920, 1080>>
ScanMems ==
    { GuiMem,
      [c \in Cells |-> (c * 7 + 1) % 256],
      [c \in Cells |-> 0],
      [c \in Cells |-> 255] }

\* the scan alone, on the synthetic Environment and on the game
InitScan ==
    /\ mem \in ScanMems
    /\ envKind \in {"synthetic", "emulator"}
    /\ \E modifs \in { <<>>, << <<"s", 4>>, <<"f", 3>> >> } : InitModifs(modifs)
    /\ InitRenderer(Screen, FALSE)

NextScan ==
    \/ ScanStart
    \/ ScanRestoreRef
    \/ ProbeWrite
    \/ ProbeStep
    \/ ProbeRestore
    \/ ScanFinish

SpecScan == InitScan /\ [][NextScan]_vars

\* the screens tried, each windowed and fullscreen: between them a grid of
\* one column, of eight columns with scaled cells and of ten columns
Layouts ==
    { <<Screen, FALSE>>, <<Screen, TRUE>>, << <<800, 600>>, FALSE >> }

\* the mouse handlers alone, on every layout
InitMouse ==
    /\ mem = GuiMem
    /\ envKind = "emulator"
    /\ InitModifs(<<>>)
    /\ \E l \in Layouts : InitRenderer(l[1], l[2])

NextMouse ==
    \/ SelectCell
    \/ RightClick
    \/ WheelUp
    \/ WheelDown

SpecMouse == InitMouse /\ [][NextMouse]_vars

\* command lines "-m ..." that between them select every mode
GuiModifs ==
    { << <<"s", 1>>, <<"f", 1>> >>,
      << <<"f", 2>>, <<"s", 2>> >>,
      << <<"s", 3>>, <<"f", 3>> >>,
      << <<"s", 4>> >> }

\* the renderer on the game, with every handler
Init ==
    /\ mem = GuiMem
    /\ envKind = "emulator"
    /\ \E modifs \in GuiModifs : InitModifs(modifs)
    /\ InitRenderer(Screen, FALSE)

Next ==
    \/ SelectCell
    \/ WheelUp
    \/ WheelDown
    \/ TypeDigit
    \/ Backspace
    \/ Escape
    \/ Enter
    \/ Frame
    \/ NextScan

Spec == Init /\ [][Next]_vars

\* ================================================== claims on the patcher
\* the step applies function f (a second time in a row when Again(f))
Applies(f) == trace' = Append(trace, f)
Again(f) == Len(trace) >= 1 /\ trace[Len(trace)] = f /\ Applies(f)
FishCells == 69 .. 74
Only(m, S) == [c \in Cells |-> IF c \in S THEN m[c] ELSE 0]

\* C3 as stated: in every shark mode and every fish mode, applying the same
\* patcher a second time in a row leaves the memory as the first left it.
C3_IdempotentInEveryMode ==
    [][(Again("alter_shark") \/ Again("alter_fish")) => mem' = mem]_vars

\* C3 amended: a second application in a row changes nothing in every fish
\* mode and in every shark mode but the speed mode 4; in speed mode 4 it
\* changes nothing exactly when the first application left cell 75 at 120.
C3_IdempotentButSpeedMode ==
    [][/\ Again("alter_fish") => mem' = mem
       /\ (Again("alter_shark") /\ SHARK_MODE # 4) => mem' = mem
       /\ (Again("alter_shark") /\ SHARK_MODE = 4)
              => (mem' = mem <=> mem[75] = 120)]_vars

C3_Witness ==
    /\ trace = <<"alter_shark", "alter_shark">>
    /\ SHARK_MODE = 3
    /\ mem0[75] = 100
    /\ mem[75] = 25

\* C4: in speed mode 4 one application of alter_shark takes cell 75 from
\* v < 120 to v + 5, writing no value above 255, and from v > 120 to 1.
C4_Ramp ==
    [][(Applies("alter_shark") /\ SHARK_MODE = 4)
          => /\ mem[75] < 120 => /\ mem'[75] = mem[75] + 5
                                 /\ \A w \in wlog' : w[2] <= 255
             /\ mem[75] > 120 => mem'[75] = 1
             /\ mem[75] = 115 => mem'[75] = 120
             /\ mem[75] = 121 => mem'[75] = 1]_vars

C4_Witness ==
    /\ trace = <<"alter_shark">>
    /\ SHARK_MODE = 4
    /\ mem0[75] = 119
    /\ mem[75] = 124

\* C5: in teleport mode 3 one application of alter_shark takes cell 75 from
\* 100 to 25 and from 30 to 105, and for any other value changes no cell.
C5_Bounce ==
    [][(Applies("alter_shark") /\ SHARK_MODE = 3)
          => /\ mem[75] = 100 => mem'[75] = 25
             /\ mem[75] = 30 => mem'[75] = 105
             /\ mem[75] \notin {100, 30} => mem' = mem]_vars

C5_Witness ==
    /\ trace = <<"alter_shark">>
    /\ SHARK_MODE = 3
    /\ mem0[75] = 30
    /\ mem[75] = 105

\* C6: in fish mode 3 one application of alter_fish takes each fish cell
\* above 86 to 70, each below 70 to 86, leaves each in [70, 86] as it is, and
\* so leaves all six in [70, 86].
C6_ClampToBand ==
    [][(Applies("alter_fish") /\ FISH_MODE = 3)
          => \A c \in FishCells :
                /\ mem[c] > 86 => mem'[c] = 70
                /\ mem[c] < 70 => mem'[c] = 86
                /\ mem[c] \in 70 .. 86 => mem'[c] = mem[c]
                /\ mem'[c] \in 70 .. 86]_vars

C6_Witness ==
    /\ trace = <<"alter_fish">>
    /\ FISH_MODE = 3
    /\ mem0[69] = 0 /\ mem[69] = 86
    /\ mem0[71] = 70 /\ mem[71] = 70
    /\ mem0[74] = 255 /\ mem[74] = 70

\* C8: alter_shark then alter_fish leaves the memory that alter_fish then
\* alter_shark leaves, from the same memory and with the same pair of modes.
C8_Composable ==
    /\ trace = <<"alter_shark", "alter_fish">>
          => mem = alter_shark(alter_fish(St(mem0), FISH_MODE), SHARK_MODE).mem
    /\ trace = <<"alter_fish", "alter_shark">>
          => mem = alter_fish(alter_shark(St(mem0), SHARK_MODE), FISH_MODE).mem

C8_Witness ==
    /\ trace = <<"alter_fish", "alter_shark">>
    /\ SHARK_MODE = 4 /\ FISH_MODE = 3
    /\ mem[75] # mem0[75]
    /\ mem[69] # mem0[69]

\* C9: alter_shark writes cell 75 only and its result there depends on cell
\* 75 only; alter_fish writes cells 69..74 only and its result there depends
\* on these cells only; every other cell keeps its value; in mode 0 the
\* function passes nothing to a memory write.
C9_Frame ==
    [][/\ Applies("alter_shark")
          => /\ \A c \in Cells \ {75} : mem'[c] = mem[c]
             /\ \A w \in wlog' : w[1] = 75
             /\ mem'[75] = alter_shark(St(Only(mem, {75})), SHARK_MODE).mem[75]
             /\ SHARK_MODE = 0 => wlog' = {}
       /\ Applies("alter_fish")
          => /\ \A c \in Cells \ FishCells : mem'[c] = mem[c]
             /\ \A w \in wlog' : w[1] \in FishCells
             /\ \A c \in FishCells :
                   mem'[c] = alter_fish(St(Only(mem, FishCells)), FISH_MODE).mem[c]
             /\ FISH_MODE = 0 => wlog' = {}]_vars

C9_Witness ==
    /\ trace = <<"alter_shark", "alter_fish">>
    /\ SHARK_MODE = 2 /\ FISH_MODE = 1
    /\ mem0[75] # 25 /\ mem[75] = 25
    /\ mem0[74] = 255 /\ mem[74] = 44
    /\ wlog # {}

\* ===================================================== claims on the scan
\* C1: whenever no scan is in progress, and so after every completed
\* find_causative_ram, every memory cell has the value it had before the scan.
C1_RoundTrip == pc = "idle" => mem = mem0

C1_Witness ==
    /\ pc = "idle"
    /\ last = "find_causative_ram"
    /\ envKind = "emulator"
    /\ candidate_cell_ids # <<>>
    /\ mem = mem0

\* C2: on the synthetic Environment, whose step leaves the memory alone and
\* whose pixel (x, y) is memory[k] mod 2, the scan ends with the candidates
\* exactly k when memory[k] is odd and with none when it is even.
C2_SyntheticScan ==
    (envKind = "synthetic" /\ pc = "finish")
       => LET k == PixelCell(scan_xy[1], scan_xy[2])
          IN  candidate_cell_ids = IF ram[k] % 2 = 1 THEN <<k>> ELSE <<>>

C2_Witness ==
    /\ envKind = "synthetic"
    /\ pc = "finish"
    /\ ram[75] % 2 = 1
    /\ candidate_cell_ids = <<75>>

\* C11: at the start of every probe iteration, and after the last one, the
\* memory equals the reference copy; right after a probe write the memory
\* differs from the copy in at most the probed cell, which holds 0, and that
\* write was the only one the step made; after the step that follows, the
\* memory is what one step makes of the copy with that one cell at 0.
C11_RestoredBeforeNextProbe ==
    /\ pc \in {"probe_write", "finish"} => mem = ram
    /\ pc = "probe_step"
          => /\ wlog = {<<scan_i, 0>>}
             /\ mem = [ram EXCEPT ![scan_i] = 0]
             /\ Cardinality({c \in Cells : mem[c] # ram[c]}) <= 1
    /\ pc = "probe_restore"
          => mem = env_step(St([ram EXCEPT ![scan_i] = 0]), envKind,
                            step_modifs, SHARK_MODE, FISH_MODE).mem

C11_Witness ==
    /\ pc = "probe_write"
    /\ scan_i = 76
    /\ envKind = "emulator"
    /\ ram[75] # 0
    /\ candidate_cell_ids # <<>>
    /\ mem = ram

InvalidReq(r) ==
    r.path # "none" /\ (r.idx \notin Cells \/ r.value \notin Byte)

C10_InvalidWriteFails ==
    [][InvalidReq(req') => (err' # "none" /\ mem' = mem)]_vars

\* C12: every index the mouse handlers take from _get_cell_under_mouse is
\* None or a cell index in [0, N): the cell selected by a left click, every
\* entry a right click put into no_render, and the index a wheel event used
\* to read and write the memory.
C12_CellIndexValid ==
    /\ active_cell_idx \in Cells \cup {NoCell}
    /\ \A j \in 1 .. Len(no_render) : no_render[j] \in Cells \cup {NoCell}
    /\ req.path = "wheel" => req.idx \in Cells

====
